---- MODULE Spec2Model ----
(***************************************************************************)
(* Book recommender (src/main.py): prep_dataset cleans the three tables,   *)
(* main() then loops: read an ISBN, look its title up, find the most       *)
(* similar book, look that title up, print one line.                       *)
(*                                                                         *)
(* Tables are sequences of records (a DataFrame's rows in index order).    *)
(* A missing cell (NaN) is the string NA.  The quotients pandas computes   *)
(* are IEEE-754 doubles: a positive double is [hi, lo, e], the number      *)
(* (hi * 2^27 + lo) * 2^e with a 53 bit significand, and a division rounds *)
(* to nearest, ties to even, so that Score is the thrice rounded           *)
(* fl(fl(count / n) / fl(count / m)) of the code.  sort_values and         *)
(* value_counts sort with the default quicksort, which leaves the order of *)
(* rows with equal keys open: every such order is a possible outcome, and  *)
(* the operators of find_most_similar yield the set of possible frames.    *)
(*                                                                         *)
(* Spec follows main() through any number of queries on small tables, the  *)
(* locals keeping what the round before left in them; SpecFirst follows it *)
(* through one query on the larger families of tables.                     *)
(***************************************************************************)
EXTENDS Integers, Sequences, FiniteSets

\* ---------------------------------------------------------------- bounds
MaxRows == 3        \* rows of an exhaustively enumerated ratings table
MaxDislikes == 1    \* rows with a rating <= 8 in such a table
MaxCleanRows == 3   \* rows of a ratings table paired with an incomplete catalogue
MaxLoopRows == 3    \* rows of a ratings table when main() is asked again and again
MaxLikers == 20     \* users who like the queried book in a block table
MaxCoLikes == 2     \* of them, how many also like the third book

\* ------------------------------------------------------------ value sets
NA == "NA"
None == "None"
ItemSeq == <<"A", "B", "C">>
Items == {ItemSeq[i] : i \in 1..Len(ItemSeq)}
Unknown == "Z"
Queries == Items \cup {Unknown}
Users == {1, 2}
\* the ratings in the enumerated tables: the threshold 8 and the like above it
RatingValues == {8, 9}
TitleOf == [i \in Items |-> CASE i = "A" -> "Title A" [] i = "B" -> "Title B" [] OTHER -> "Title C"]

\* ------------------------------------------------------- sequence helpers
Min(a, b) == IF a < b THEN a ELSE b

\* pandas unique(): the distinct values in order of first appearance
RECURSIVE Unique(_)
Unique(s) ==
    IF s = <<>> THEN <<>>
    ELSE LET init == Unique(SubSeq(s, 1, Len(s) - 1))
             last == s[Len(s)]
         IN IF \E i \in 1..Len(init) : init[i] = last THEN init
            ELSE Append(init, last)

Range(s) == {s[i] : i \in 1..Len(s)}

Column(t, f) == [i \in 1..Len(t) |-> t[i][f]]

CountOf(s, k) == Cardinality({i \in 1..Len(s) : s[i] = k})

\* ------------------------------------------------ double precision numbers
\* a natural number below 2^57 in two limbs: hi * Limb + lo, lo < Limb
Limb == 2^27
Nat2(h, l) == [hi |-> h, lo |-> l]
Twice(x) == Nat2(2 * x.hi + (2 * x.lo) \div Limb, (2 * x.lo) % Limb)
Succ(x) == IF x.lo = Limb - 1 THEN Nat2(x.hi + 1, 0) ELSE Nat2(x.hi, x.lo + 1)
Geq(x, y) == x.hi > y.hi \/ (x.hi = y.hi /\ x.lo >= y.lo)
\* x - y, for x >= y
Minus(x, y) ==
    IF x.lo >= y.lo THEN Nat2(x.hi - y.hi, x.lo - y.lo)
    ELSE Nat2(x.hi - y.hi - 1, x.lo + Limb - y.lo)

\* the double sig * 2^e, sig = hi * Limb + lo in 2^52 .. 2^53 - 1
Double(sig, e) == [hi |-> sig.hi, lo |-> sig.lo, e |-> e]
Sig(x) == Nat2(x.hi, x.lo)

\* the double of a positive int64 count n below 2^26 (no rounding): with
\* 2^k <= n < 2^(k+1) it is (n * 2^(52-k)) * 2^(k-52)
ToDouble(n) ==
    LET k == CHOOSE j \in 0..25 : 2^j <= n /\ n < 2^(j + 1)
    IN Double(Nat2(n * 2^(25 - k), 0), k - 52)

\* one more bit of the quotient by y: d.q the bits so far, d.r the remainder
DivStep(d, y) ==
    LET r2 == Twice(d.r)
    IN IF Geq(r2, y) THEN [q |-> Succ(Twice(d.q)), r |-> Minus(r2, y)]
       ELSE [q |-> Twice(d.q), r |-> r2]

\* k more bits (k > 0), the first half of them and then the rest; the
\* remainder stays below the divisor
RECURSIVE DivSteps(_, _, _)
DivSteps(d, y, k) ==
    IF k = 1 THEN DivStep(d, y)
    ELSE LET half == DivSteps(d, y, k \div 2)
         IN IF Geq(half.r, y) THEN half
            ELSE DivSteps(half, y, k - k \div 2)

LongDiv(q, r, y, k) == DivSteps([q |-> q, r |-> r], y, k)

\* x / y of two positive doubles: the 53 leading bits of the quotient,
\* rounded to nearest on the remainder, a tie to the even significand
DDiv(x, y) ==
    LET big == Geq(Sig(x), Sig(y))
        d == IF big THEN LongDiv(Nat2(0, 1), Minus(Sig(x), Sig(y)), Sig(y), 52)
             ELSE LongDiv(Nat2(0, 0), Sig(x), Sig(y), 53)
        e == IF big THEN x.e - y.e - 52 ELSE x.e - y.e - 53
        r2 == Twice(d.r)
        up == IF r2 = Sig(y) THEN d.q.lo % 2 = 1 ELSE Geq(r2, Sig(y))
        q == IF up THEN Succ(d.q) ELSE d.q
    IN IF q.hi = 2^26 THEN Double(Nat2(2^25, 0), e + 1) ELSE Double(q, e)

\* the counts a table of Init can hold
MaxCount == MaxLikers + MaxCoLikes + 2

\* a / b for all counts a and b, both converted to double first
Quotients ==
    LET Line(a) == [b \in 1..MaxCount |-> DDiv(ToDouble(a), ToDouble(b))]
    IN SubSeq([a \in 1..MaxCount |-> SubSeq(Line(a), 1, MaxCount)],
              1, MaxCount)

\* a count divided by a count
IntDiv(a, b) == Quotients[a][b]

\* x > y of two positive doubles
DGt(x, y) ==
    \/ x.e > y.e
    \/ x.e = y.e /\ x.hi > y.hi
    \/ x.e = y.e /\ x.hi = y.hi /\ x.lo > y.lo

\* the literal 0.05: the double nearest to 1/20
Support == DDiv(ToDouble(1), ToDouble(20))

\* the ways to put n rows in a row
Permutations(n) ==
    {p \in [1..n -> 1..n] : \A i, j \in 1..n : i # j => p[i] # p[j]}

\* the rows of s in the order p
Permuted(s, p) == SubSeq([k \in 1..Len(s) |-> s[p[k]]], 1, Len(s))

\* the sort inside value_counts(): descending by count with the default
\* kind='quicksort', which promises nothing about rows with equal counts:
\* every descending order of the rows is a frame the call can return
SortByCountDesc(rows) ==
    LET s == SubSeq(rows, 1, Len(rows))
    IN {Permuted(s, p) :
          p \in {q \in Permutations(Len(s)) :
                   \A k \in 1..(Len(s) - 1) : s[q[k]].count >= s[q[k + 1]].count}}

\* Series.value_counts(): one row per distinct value, most frequent first;
\* the set of the frames it can return
value_counts(s) ==
    LET keys == Unique(s)
    IN SortByCountDesc([i \in 1..Len(keys) |->
                          [key |-> keys[i], count |-> CountOf(s, keys[i])]])

\* ------------------------------------------------------ get_name_from_isbn
Ok(v) == [exc |-> None, value |-> v]
Raise(e) == [exc |-> e, value |-> None]

\* the exception of .iloc[0] on a frame without rows
IlocError == "IndexError"

IsbnIs(row, isbn) == row.isbn = isbn

\* the mutant: a label lookup (.loc), which raises KeyError
get_name_from_isbn_loc(bks, isbn) ==
    LET IsIt(row) == IsbnIs(row, isbn)
        hits == SelectSeq(bks, IsIt)
    IN IF hits = <<>> THEN Raise("KeyError") ELSE Ok(hits[1].title)

get_name_from_isbn(bks, isbn) ==
    LET IsIt(row) == IsbnIs(row, isbn)
        hits == SelectSeq(bks, IsIt)
    IN IF hits = <<>> THEN Raise(IlocError) ELSE Ok(hits[1].title)

\* ------------------------------------------------------- find_most_similar
\* ratings['Book-Rating'] > 8
IsLike(row) == row.rating > 8

\* ratings[(ratings['ISBN'] == book_id) & (ratings['Book-Rating'] > 8)]
book_ratings(rts, book_id) ==
    LET Keep(row) == row.isbn = book_id /\ IsLike(row)
    IN SelectSeq(rts, Keep)

sim_users(rts, book_id) == Unique(Column(book_ratings(rts, book_id), "user"))

\* ratings[ratings['User-ID'].isin(sim_users) & (rating > 8)]['ISBN']
LikesOfUsers(rts, su) ==
    LET Keep(row) == row.user \in su /\ IsLike(row)
    IN Column(SelectSeq(rts, Keep), "isbn")

sim_user_likes(rts, book_id) ==
    LikesOfUsers(rts, Range(sim_users(rts, book_id)))

\* the mutant: sim_user_recs >= 0.05
AboveSupport_ge(p) == ~DGt(Support, p)

\* the mutant: sim_user_recs > 5, the threshold taken as a percentage
AboveSupport_percent(p) == DGt(p, ToDouble(5))

\* sim_user_recs > 0.05
AboveSupport(p) == DGt(p, Support)

\* vc / n, then the rows above the 5% support
Supported(vc, n) ==
    LET frac == [i \in 1..Len(vc) |->
                   [key |-> vc[i].key, Similar |-> IntDiv(vc[i].count, n)]]
        Keep(row) == AboveSupport(row.Similar)
    IN SelectSeq(frac, Keep)

\* value_counts() / n, then the rows above the 5% support: one frame for
\* each frame value_counts() can return
SupportedRecs(likes, n) == {Supported(vc, n) : vc \in value_counts(likes)}

sim_user_recs(rts, book_id) ==
    SupportedRecs(sim_user_likes(rts, book_id), Len(sim_users(rts, book_id)))

\* ratings[ratings['ISBN'].isin(index) & (rating > 8)]
LikesOfBooks(rts, idx) ==
    LET Keep(row) == row.isbn \in idx /\ IsLike(row)
    IN SelectSeq(rts, Keep)

\* every like of a book that is in the frame sim, one of sim_user_recs
all_users(rts, sim) == LikesOfBooks(rts, Range(Column(sim, "key")))

\* vc / n
Global(vc, n) ==
    SubSeq([i \in 1..Len(vc) |->
              [key |-> vc[i].key, All |-> IntDiv(vc[i].count, n)]],
           1, Len(vc))

\* the mutant: the counts are divided by the number of like rows
GlobalRecs_rows(au) ==
    {Global(vc, Len(au)) : vc \in value_counts(Column(au, "isbn"))}

\* value_counts() / len(unique users)
GlobalRecs(au) ==
    {Global(vc, Len(Unique(Column(au, "user")))) :
        vc \in value_counts(Column(au, "isbn"))}

all_users_recs(rts, sim) == GlobalRecs(all_users(rts, sim))

\* pd.concat([sim, aur], axis=1) joins the two series on their index (both
\* have the same keys: every book of sim has a like in all_users)
Concat(sim, aur) ==
    LET AllOf(k) == aur[CHOOSE j \in 1..Len(aur) : aur[j].key = k].All
    IN SubSeq([i \in 1..Len(sim) |->
                 [key |-> sim[i].key,
                  Similar |-> sim[i].Similar,
                  All |-> AllOf(sim[i].key)]],
              1, Len(sim))

\* rec_percentages['Score'] = Similar / All
WithScore(rp) ==
    SubSeq([i \in 1..Len(rp) |->
              [key |-> rp[i].key, Similar |-> rp[i].Similar, All |-> rp[i].All,
               Score |-> DDiv(rp[i].Similar, rp[i].All)]],
           1, Len(rp))

\* sort_values('Score', ascending=False): descending by Score with the
\* default kind='quicksort', which promises nothing about rows with equal
\* scores: every descending order of the rows is a frame it can return
SortByScoreDesc(rows) ==
    LET s == SubSeq(rows, 1, Len(rows))
    IN {Permuted(s, p) :
          p \in {q \in Permutations(Len(s)) :
                   \A k \in 1..(Len(s) - 1) :
                      ~DGt(s[q[k + 1]].Score, s[q[k]].Score)}}

\* the frames rec_percentages can be after line 85
rec_percentages(rts, book_id) ==
    LET joined == UNION {{Concat(sim, aur) : aur \in all_users_recs(rts, sim)} :
                            sim \in sim_user_recs(rts, book_id)}
    IN UNION {SortByScoreDesc(WithScore(rp)) : rp \in joined}

\* the mutant: the target is not taken out of the ranked list
NotTheBook_any(row, book_id) == TRUE

\* rec_percentages[rec_percentages.index != book_id]
NotTheBook(row, book_id) == row.key # book_id

\* rec_percentages[...].iloc[0].name
FirstOther(rp, book_id) ==
    LET Keep(row) == NotTheBook(row, book_id)
        rest == SelectSeq(rp, Keep)
    IN IF rest = <<>> THEN Raise(IlocError) ELSE Ok(rest[1].key)

\* what find_most_similar can return or raise
find_most_similar(rts, book_id) ==
    {FirstOther(rp, book_id) : rp \in rec_percentages(rts, book_id)}

\* ------------------------------------------------------------ prep_dataset
\* DataFrame.drop(columns=...)
DropColumns(t, cols) ==
    [i \in 1..Len(t) |-> [f \in (DOMAIN t[i]) \ cols |-> t[i][f]]]

\* DataFrame.drop(index=...): the rows whose position is not in idx
RECURSIVE DropIndex(_, _)
DropIndex(t, idx) ==
    IF t = <<>> THEN <<>>
    ELSE LET init == DropIndex(SubSeq(t, 1, Len(t) - 1), idx)
         IN IF Len(t) \in idx THEN init ELSE Append(init, t[Len(t)])

\* the mutant: only the author is looked at
books_na_author(bks) == {i \in 1..Len(bks) : bks[i].author = NA}

\* books.index[books['Book-Author'].isna() | books['Publisher'].isna()]
books_na(bks) ==
    {i \in 1..Len(bks) : bks[i].author = NA \/ bks[i].publisher = NA}

\* ratings.index[~ratings['ISBN'].isin(books['ISBN'])]
ratings_na(rts, bks) ==
    {i \in 1..Len(rts) : rts[i].isbn \notin Range(Column(bks, "isbn"))}

ImageColumns == {"image_s", "image_m", "image_l"}

\* lines 110-112: books.drop(index=books_na)
DropIncompleteBooks(bks) == DropIndex(bks, books_na(bks))

\* the mutant: drop() without inplace=True leaves the ratings as they were
DropOrphanRatings_copy(rts, bks) == rts

\* lines 116-117: ratings.drop(index=ratings_na)
DropOrphanRatings(rts, bks) == DropIndex(rts, ratings_na(rts, bks))

\* the mutant: the ratings are matched against the books before the
\* incomplete ones are dropped
prep_dataset_early(rawBooks, rawRatings, rawUsers) ==
    LET b1 == DropColumns(rawBooks, ImageColumns)
    IN [books |-> DropIncompleteBooks(b1),
        ratings |-> DropOrphanRatings(rawRatings, b1),
        users |-> DropColumns(rawUsers, {"age"})]

prep_dataset(rawBooks, rawRatings, rawUsers) ==
    LET b1 == DropColumns(rawBooks, ImageColumns)
        b2 == DropIncompleteBooks(b1)
        u1 == DropColumns(rawUsers, {"age"})
        r1 == DropOrphanRatings(rawRatings, b2)
    IN [books |-> b2, ratings |-> r1, users |-> u1]

\* ------------------------------------------------------------------ inputs
Complete == "complete"
NoAuthor == "no author"
NoPublisher == "no publisher"
Absent == "absent"
BookStatus == {Complete, NoAuthor, NoPublisher, Absent}

RawBook(i, st) ==
    [isbn |-> i, title |-> TitleOf[i],
     author |-> IF st = NoAuthor THEN NA ELSE "an author",
     publisher |-> IF st = NoPublisher THEN NA ELSE "a publisher",
     image_s |-> "s.jpg", image_m |-> "m.jpg", image_l |-> "l.jpg"]

\* Books.csv with one row per book that is not absent, in the order of ItemSeq
RawBooks(st) ==
    LET Present(i) == st[i] # Absent
        present == SelectSeq(ItemSeq, Present)
    IN [k \in 1..Len(present) |-> RawBook(present[k], st[present[k]])]

AllComplete == [i \in Items |-> Complete]

Row(u, i, s) == [user |-> u, isbn |-> i, rating |-> s]

RowValues(us) ==
    {Row(u, i, s) : u \in us, i \in Items, s \in RatingValues}

Dislikes(t) == Cardinality({i \in 1..Len(t) : ~(t[i].rating > 8)})

\* every Ratings.csv of at most n rows by the users us, at most MaxDislikes of
\* the rows no like
SmallTables(n, us) ==
    {t \in UNION {[1..k -> RowValues(us)] : k \in 0..n} :
        Dislikes(t) <= MaxDislikes}

Reverse(t) == [i \in 1..Len(t) |-> t[Len(t) + 1 - i]]

\* Ratings.csv in blocks: users 1..n like A (10), the first kB of them like B,
\* with e = 1 user 1 likes B a second time, the first kC of them like C,
\* m further users like C, and user 2 rates C with 1
BlockTable(n, kB, e, kC, m) ==
    [i \in 1..n |-> Row(i, "A", 10)]
    \o [i \in 1..kB |-> Row(i, "B", 10)]
    \o [i \in 1..e |-> Row(1, "B", 10)]
    \o [i \in 1..kC |-> Row(i, "C", 10)]
    \o [i \in 1..m |-> Row(n + i, "C", 10)]
    \o <<Row(2, "C", 1)>>

\* the block tables, top to bottom and bottom to top
BlockTables ==
    LET fwd == UNION {{BlockTable(n, kB, e, kC, m) :
                          kB \in {0, 1, n}, e \in 0..1,
                          kC \in 0..Min(n, MaxCoLikes), m \in 0..1}
                      : n \in 1..MaxLikers}
    IN fwd \cup {Reverse(t) : t \in fwd}

\* Ratings.csv in which two books have the same quotient of counts and
\* Scores one unit in the last place apart: users 1..5 like A, 1 and 6 like
\* B, 1..3 and 6..8 like C; the rows of C before or after those of B
RoundingTable(cFirst) ==
    LET As == [i \in 1..5 |-> Row(i, "A", 9)]
        Bs == <<Row(1, "B", 9), Row(6, "B", 9)>>
        Cs == [i \in 1..3 |-> Row(i, "C", 9)]
              \o [i \in 1..3 |-> Row(5 + i, "C", 9)]
    IN IF cFirst THEN As \o Cs \o Bs ELSE As \o Bs \o Cs

RoundingTables == {RoundingTable(cFirst) : cFirst \in BOOLEAN}

RawUsers == [i \in 1..2 |-> [id |-> i, age |-> 30 + i]]

\* ------------------------------------------------------------------- state
VARIABLES
    books_csv, ratings_csv, users_csv,   \* the files in dataset/
    books, ratings, users,   \* the three DataFrames of main()
    pc,                      \* where main() is
    input_book, input_book_name, output_isbn, output_name, out_str,
    exc                      \* the exception being propagated, if any

vars == <<books_csv, ratings_csv, users_csv, books, ratings, users, pc, input_book, input_book_name,
          output_isbn, output_name, out_str, exc>>

locals == <<input_book, input_book_name, output_isbn, output_name, out_str>>

\* out_str before it is assigned
NoLine == [text |-> None, a |-> None, b |-> None]
FailMsg == [text |-> "That book does not exist in the dataset.",
            a |-> None, b |-> None]
Format(a, b) == [text |-> "If you like \"{0}\",then you'll like \"{1}\".",
                 a |-> a, b |-> b]

\* no exception is being propagated
NoExc == [type |-> None, line |-> 0]
\* an exception of type t raised under the statement of main() at line l
Raised(t, l) == [type |-> t, line |-> l]

files == <<books_csv, ratings_csv, users_csv>>
frames == <<books, ratings, users>>

\* main() has not started
NotStarted ==
    /\ books = <<>> /\ ratings = <<>> /\ users = <<>>
    /\ pc = "start"
    /\ input_book = None /\ input_book_name = None
    /\ output_isbn = None /\ output_name = None /\ out_str = NoLine
    /\ exc = NoExc

\* the ratings tables on which main() is followed through query after query:
\* likes of one user
LoopTables ==
    UNION {[1..k -> {Row(1, i, 9) : i \in Items}] : k \in 0..MaxLoopRows}

\* the CSV files as pd.read_csv will read them, for a run of many queries
Init ==
    /\ \E st \in [Items -> BookStatus] : books_csv = RawBooks(st)
    /\ ratings_csv \in LoopTables
    /\ users_csv = RawUsers
    /\ NotStarted

\* the CSV files as pd.read_csv will read them, for a run of one query
InitFirst ==
    /\ \/ /\ books_csv = RawBooks(AllComplete)
          /\ ratings_csv \in SmallTables(MaxRows, Users) \cup BlockTables
                             \cup RoundingTables
       \/ /\ \E st \in [Items -> BookStatus] : books_csv = RawBooks(st)
          /\ ratings_csv \in SmallTables(MaxCleanRows, {1})
    /\ users_csv = RawUsers
    /\ NotStarted

\* line 123: books, ratings, users = prep_dataset()
PrepDataset ==
    /\ pc = "start"
    /\ LET d == prep_dataset(books_csv, ratings_csv, users_csv)
       IN /\ books' = d.books
          /\ ratings' = d.ratings
          /\ users' = d.users
    /\ pc' = "prompt"
    /\ UNCHANGED <<files, locals, exc>>

\* line 126: input_book = input(...) when a line is typed; the other locals
\* keep what the round before left in them
ReadInput ==
    /\ pc = "prompt"
    /\ \E isbn \in Queries : input_book' = isbn
    /\ pc' = "lookup1"
    /\ UNCHANGED <<files, frames, input_book_name, output_isbn,
                   output_name, out_str, exc>>

\* line 126 for the first time
ReadFirstInput ==
    /\ input_book = None
    /\ ReadInput

\* line 126 at the end of the input: input() raises EOFError outside the try
\* statement and main() ends
EndOfInput ==
    /\ pc = "prompt"
    /\ exc' = Raised("EOFError", 126)
    /\ pc' = "exited"
    /\ UNCHANGED <<files, frames, locals>>

\* line 128: input_book_name = get_name_from_isbn(books, input_book)
Lookup1 ==
    /\ pc = "lookup1"
    /\ LET r == get_name_from_isbn(books, input_book)
       IN IF r.exc = None
          THEN /\ input_book_name' = r.value /\ pc' = "recommend"
               /\ UNCHANGED exc
          ELSE /\ exc' = Raised(r.exc, 128) /\ pc' = "except"
               /\ UNCHANGED input_book_name
    /\ UNCHANGED <<files, frames, input_book, output_isbn,
                   output_name, out_str>>

\* line 129: output_isbn = find_most_similar(ratings, input_book)
Recommend ==
    /\ pc = "recommend"
    /\ \E r \in find_most_similar(ratings, input_book) :
          IF r.exc = None
          THEN /\ output_isbn' = r.value /\ pc' = "lookup2"
               /\ UNCHANGED exc
          ELSE /\ exc' = Raised(r.exc, 129) /\ pc' = "except"
               /\ UNCHANGED output_isbn
    /\ UNCHANGED <<files, frames, input_book, input_book_name,
                   output_name, out_str>>

\* line 130: output_name = get_name_from_isbn(books, output_isbn)
Lookup2 ==
    /\ pc = "lookup2"
    /\ LET r == get_name_from_isbn(books, output_isbn)
       IN IF r.exc = None
          THEN /\ output_name' = r.value /\ pc' = "format"
               /\ UNCHANGED exc
          ELSE /\ exc' = Raised(r.exc, 130) /\ pc' = "except"
               /\ UNCHANGED output_name
    /\ UNCHANGED <<files, frames, input_book, input_book_name,
                   output_isbn, out_str>>

\* lines 131-132: out_str = '...'.format(input_book_name, output_name)
FormatLine ==
    /\ pc = "format"
    /\ out_str' = Format(input_book_name, output_name)
    /\ pc' = "print"
    /\ UNCHANGED <<files, frames, input_book, input_book_name,
                   output_isbn, output_name, exc>>

\* lines 133-134: except IndexError: out_str = '...'; any other exception
\* leaves main()
Except ==
    /\ pc = "except"
    /\ IF exc.type = "IndexError"
       THEN /\ out_str' = FailMsg /\ exc' = NoExc /\ pc' = "print"
       ELSE /\ pc' = "exited" /\ UNCHANGED <<out_str, exc>>
    /\ UNCHANGED <<files, frames, input_book, input_book_name,
                   output_isbn, output_name>>

\* line 135: print(out_str), then the next turn of while True; at the prompt
\* out_str is the line just printed
PrintLine ==
    /\ pc = "print"
    /\ pc' = "prompt"
    /\ UNCHANGED <<files, frames, locals, exc>>

\* main() for as long as lines are typed
Next ==
    \/ PrepDataset
    \/ ReadInput
    \/ EndOfInput
    \/ Lookup1
    \/ Recommend
    \/ Lookup2
    \/ FormatLine
    \/ Except
    \/ PrintLine

Spec == Init /\ [][Next]_vars

\* main() given an input of at most one line
NextFirst ==
    \/ PrepDataset
    \/ ReadFirstInput
    \/ EndOfInput
    \/ Lookup1
    \/ Recommend
    \/ Lookup2
    \/ FormatLine
    \/ Except
    \/ PrintLine

SpecFirst == InitFirst /\ [][NextFirst]_vars

TypeOK ==
    /\ pc \in {"start", "prompt", "lookup1", "recommend", "lookup2",
               "format", "except", "print", "exited"}
    /\ exc.type \in {None, "IndexError", "EOFError"}
    /\ input_book \in Queries \cup {None}
    /\ output_isbn \in Items \cup {None}

(***************************************************************************)
(* The quantities of the specification, counted directly on the table.     *)
(***************************************************************************)
LikeRows(rts) == {i \in 1..Len(rts) : rts[i].rating > 8}

likers(rts, x) == {rts[i].user : i \in {j \in LikeRows(rts) : rts[j].isbn = x}}

candidateCounts(rts, x, c) ==
    Cardinality({i \in LikeRows(rts) :
                    rts[i].isbn = c /\ rts[i].user \in likers(rts, x)})

globalCount(rts, c) == Cardinality({i \in LikeRows(rts) : rts[i].isbn = c})

\* C : the candidates with similarFraction > 0.05
CandidateSet(rts, x) ==
    {c \in {rts[i].isbn : i \in 1..Len(rts)} :
        20 * candidateCounts(rts, x, c) > Cardinality(likers(rts, x))}

totalUsers(rts, x) ==
    LET C == CandidateSet(rts, x)
    IN Cardinality({rts[i].user : i \in {j \in LikeRows(rts) : rts[j].isbn \in C}})

\* (candidateCounts / |U|) / (globalCount / totalUsers), each of the three
\* quotients rounded to a double
score(rts, x, c) ==
    DDiv(IntDiv(candidateCounts(rts, x, c), Cardinality(likers(rts, x))),
         IntDiv(globalCount(rts, c), totalUsers(rts, x)))

\* the same quotient as a fraction of integers, nothing rounded
lift(rts, x, c) ==
    [num |-> candidateCounts(rts, x, c) * totalUsers(rts, x),
     den |-> Cardinality(likers(rts, x)) * globalCount(rts, c)]

LiftGt(p, q) == p.num * q.den > q.num * p.den

\* the candidates other than the target whose score no other one exceeds
TopCandidates(rts, x) ==
    LET C == CandidateSet(rts, x) \ {x}
    IN {c \in C : \A d \in C : ~DGt(score(rts, x, d), score(rts, x, c))}

\* the first like row of book c given by a liker of x
FirstSeen(rts, x, c) ==
    LET rows == {i \in LikeRows(rts) :
                    rts[i].isbn = c /\ rts[i].user \in likers(rts, x)}
    IN CHOOSE i \in rows : \A j \in rows : i <= j

CatalogIds == {books[i].isbn : i \in 1..Len(books)}

\* find_most_similar has just returned output_isbn for input_book
Recommended == pc = "lookup2"

\* find_most_similar has just raised for input_book
RecommendFailed == pc = "except" /\ exc.line = 129

\* ------------------------------------------------------------------ claims

\* C1: find_most_similar never returns the book it was asked about.
C1_Irreflexive ==
    Recommended => output_isbn # input_book

\* the target heads the ranked list, whatever the order of equal scores,
\* and another book is returned
C1_Witness ==
    /\ Recommended
    /\ \A rp \in rec_percentages(ratings, input_book) :
          rp[1].key = input_book

\* the failure of a title lookup (ItemNotFound), as the caller sees it
ItemNotFoundKind == get_name_from_isbn(books, Unknown).exc

\* the failures of find_most_similar for a target that is its only candidate
\* (NoCandidates), as the caller sees them
NoCandidatesKinds ==
    {r.exc : r \in find_most_similar(<<Row(1, "A", 9)>>, "A")}

\* C2: with no like of the target (also when the target is in no row)
\* find_most_similar returns no id and fails, and the caller can tell that
\* failure (NoSimilarUsers) from NoCandidates and from ItemNotFound.
C2_DistinguishableFailure ==
    [][(pc = "recommend" /\ likers(ratings, input_book) = {})
          => /\ pc' = "except"
             /\ output_isbn' = output_isbn
             /\ exc'.type # ItemNotFoundKind
             /\ exc'.type \notin NoCandidatesKinds]_vars

\* C3: after prep_dataset every rating is of a book in the books table and
\* no book lacks its author or its publisher.
C3_ReferentialIntegrity ==
    pc # "start" =>
        /\ \A i \in 1..Len(ratings) : ratings[i].isbn \in CatalogIds
        /\ \A i \in 1..Len(books) :
              books[i].author # NA /\ books[i].publisher # NA

\* a rating of a book without author or publisher was in the file, and some
\* ratings are left
C3_Witness ==
    /\ pc = "prompt"
    /\ ratings # <<>>
    /\ \E i \in 1..Len(ratings_csv) : \E j \in 1..Len(books_csv) :
          /\ books_csv[j].isbn = ratings_csv[i].isbn
          /\ (books_csv[j].author = NA \/ books_csv[j].publisher = NA)

\* C4: a book is in sim_user_recs exactly if 20 * candidateCounts > |U|; a
\* book at exactly 1/20 is left out and is not returned.
C4_Threshold ==
    (Recommended \/ RecommendFailed) =>
        LET x == input_book
            n == Cardinality(likers(ratings, x))
        IN \A sim \in sim_user_recs(ratings, x) : \A c \in Items :
              /\ c \in Range(Column(sim, "key"))
                    <=> 20 * candidateCounts(ratings, x, c) > n
              /\ (Recommended /\ 20 * candidateCounts(ratings, x, c) = n)
                    => output_isbn # c

\* one book is liked by exactly one in twenty of the target's likers,
\* another by more, and a book was returned
C4_Witness ==
    /\ Recommended
    /\ \E c \in Items :
          /\ candidateCounts(ratings, input_book, c) > 0
          /\ 20 * candidateCounts(ratings, input_book, c)
                = Cardinality(likers(ratings, input_book))

\* Ratings.csv of the concrete scenario of the specification
ScenarioTable == BlockTable(5, 5, 0, 1, 0)

\* C5: of the candidates that share the highest score (the Score the code
\* computes, a double) the one whose first like row comes first in the
\* table is returned; in the concrete scenario (query A) that is B.
C5_FirstEncountered ==
    Recommended =>
        LET top == TopCandidates(ratings, input_book)
        IN /\ output_isbn \in top
           /\ \A c \in top : FirstSeen(ratings, input_book, output_isbn)
                                <= FirstSeen(ratings, input_book, c)
           /\ (ratings = ScenarioTable /\ input_book = "A")
                 => output_isbn = "B"

\* what makes a query fail: the id is not in the catalogue, nobody likes the
\* book, or no other book is a candidate
BadQuery(x) ==
    \/ x \notin CatalogIds
    \/ likers(ratings, x) = {}
    \/ CandidateSet(ratings, x) \ {x} = {}

\* C6: main() never ends because of a query: it ends only when input() finds
\* no line to read; a failed lookup never leads to find_most_similar; a bad
\* query raises, every raise sets the one failure message, and that message
\* is printed before the next prompt.
C6_LoopSurvives ==
    /\ [](pc = "exited" => exc = Raised("EOFError", 126))
    /\ [][(pc = "lookup1" /\ input_book \notin CatalogIds)
             => pc' = "except"]_vars
    /\ [][(pc = "recommend" /\ BadQuery(input_book)) => pc' = "except"]_vars
    /\ [][pc = "except" => (pc' = "print" /\ out_str' = FailMsg)]_vars
    /\ [][pc = "print" => (pc' = "prompt" /\ out_str' = out_str)]_vars

\* back at the prompt after find_most_similar failed for a book of the
\* catalogue, in a round later than one that recommended a book
C6_Witness ==
    /\ pc = "prompt"
    /\ out_str = FailMsg
    /\ output_isbn # None
    /\ input_book \in CatalogIds
    /\ BadQuery(input_book)

\* C7: cleaning the cleaned tables again removes nothing.
C7_Idempotent ==
    pc # "start" =>
        /\ DropIncompleteBooks(books) = books
        /\ DropOrphanRatings(ratings, DropIncompleteBooks(books)) = ratings

\* prep_dataset dropped a book and a rating, and kept some of each
C7_Witness ==
    /\ pc = "prompt"
    /\ books # <<>> /\ Len(books) < Len(books_csv)
    /\ ratings # <<>> /\ Len(ratings) < Len(ratings_csv)

\* C8: the book returned is a candidate other than the target that no other
\* such candidate outscores, the score being (like rows from the target's
\* likers / distinct likers) / (like rows / distinct users liking a
\* candidate): none has the greater quotient and none the greater double;
\* the Score column holds that score, rounded as the code rounds it.
C8_MaximalLift ==
    Recommended =>
        LET x == input_book
            C == CandidateSet(ratings, x) \ {x}
        IN /\ output_isbn \in C
           /\ \A c \in C : ~LiftGt(lift(ratings, x, c),
                                   lift(ratings, x, output_isbn))
           /\ \A c \in C : ~DGt(score(ratings, x, c),
                                score(ratings, x, output_isbn))
           /\ \A rp \in rec_percentages(ratings, x) : \A i \in 1..Len(rp) :
                 rp[i].Score = score(ratings, x, rp[i].key)

\* a liker of the target likes a book in two rows, and of two candidates
\* the better one was returned
C8_Witness ==
    /\ Recommended
    /\ \E i, j \in LikeRows(ratings) :
          /\ i < j
          /\ ratings[i].isbn = ratings[j].isbn
          /\ ratings[i].user = ratings[j].user
          /\ ratings[i].user \in likers(ratings, input_book)
    /\ \E c \in CandidateSet(ratings, input_book) \ {input_book} :
          LiftGt(lift(ratings, input_book, output_isbn),
                 lift(ratings, input_book, c))

\* C9: a target with a liker is a candidate itself: its count is at least
\* |U|, sim_user_recs is not empty, and find_most_similar fails only when
\* the target is the only candidate.
C9_TargetIsCandidate ==
    ((Recommended \/ RecommendFailed) /\ likers(ratings, input_book) # {}) =>
        LET x == input_book
        IN /\ candidateCounts(ratings, x, x) >= Cardinality(likers(ratings, x))
           /\ \A sim \in sim_user_recs(ratings, x) :
                 /\ x \in Range(Column(sim, "key"))
                 /\ RecommendFailed => Range(Column(sim, "key")) = {x}
           /\ x \in CandidateSet(ratings, x)

\* the query of a book with likers failed
C9_Witness ==
    /\ RecommendFailed
    /\ likers(ratings, input_book) # {}

\* C10: the id find_most_similar returns is the id of a like row and of a
\* book in the catalogue, and the second title lookup never raises.
C10_RecommendationHasTitle ==
    /\ Recommended =>
          /\ \E i \in LikeRows(ratings) : ratings[i].isbn = output_isbn
          /\ output_isbn \in CatalogIds
          /\ get_name_from_isbn(books, output_isbn).exc = None
    /\ pc = "except" => exc.line # 130

\* the second title was found after prep_dataset had dropped a rating, in a
\* round later than one that failed
C10_Witness ==
    /\ pc = "format"
    /\ out_str = FailMsg
    /\ Len(ratings) < Len(ratings_csv)

====
